---------------------------- MODULE Spec2Model ----------------------------
(***************************************************************************)
(* LockFreeQueue<T> of src/LockFreeQueue.hpp: a linked queue with a        *)
(* sentinel node, CAS retry loops on head_, tail_ and next, and two        *)
(* reference counters per node that decide when a node is deleted.         *)
(*                                                                         *)
(* Every atomic access of the source is one step of the thread that makes  *)
(* it; the steps of different threads interleave freely (the memory orders *)
(* are read as sequentially consistent).  The heap is a finite set of      *)
(* addresses: new takes any address that is not live, a fresh one or one   *)
(* that delete has given back, and delete leaves the bytes of a node in    *)
(* place until the address is handed out again.  An access to an address   *)
(* that is not live is recorded in useAfterFree, a delete of one in        *)
(* doubleFree.                                                             *)
(*                                                                         *)
(* The two counters are unsigned int.  A counter value c < 0 of the model  *)
(* stands for 2^32 + c (the counter has wrapped below zero); the model     *)
(* keeps |c| far below 2^31, so c = 0 and c = 1 mean what they mean in the *)
(* source.                                                                 *)
(***************************************************************************)
EXTENDS Integers, Sequences, FiniteSets

\* ---------------------------------------------------------------- bounds
NumThreads == 2
\* addresses the allocator owns
MaxAddr == 3
\* push and pop calls of one behaviour of Spec, where calls overlap freely
MaxCalls == 2
\* push and pop calls of one behaviour of SerialSpec, where they do not overlap
MaxSerialCalls == 5
\* push calls of one behaviour of FairPushSpec
MaxPushCalls == 3
\* the values pushed are 1..MaxVal
MaxVal == 1
\* a claim is taken only while the node's external_ref_count is below this
MaxRef == 4

NULL == 0
Threads == 1..NumThreads
Addr == 1..MaxAddr
Values == 1..MaxVal
\* what a T that was never assigned may hold when it is read
Data == 0..MaxVal
Indeterminate == -1
NotFound == -1

VARIABLES
    head_, tail_,       \* the queue's two atomic entry points
    mem,                \* address -> the node stored there
    allocated,          \* address -> whether a live node is there
    brk,                \* the addresses 1..brk have been handed out before
    pc,                 \* thread -> the atomic access it makes next
    first, last, next,  \* thread -> the locals of pop, and last, next of push
    node,               \* thread -> the node push allocated
    site,               \* thread -> the call of free_external_counter it is in
    result,             \* thread -> what pop's line 201 assigned last
    dtor,               \* the thread running ~LockFreeQueue, or 0
    calls,              \* push and pop calls made so far
    hist,               \* the calls' invocations and returns, in order
    nalloc, nfree,      \* executions of new Node and of delete
    useAfterFree,       \* some access went to an address that was not live
    doubleFree          \* some delete went to an address that was not live

queue == <<head_, tail_>>
heap == <<mem, allocated, brk, nalloc, nfree, useAfterFree, doubleFree>>
locals == <<first, last, next, node, site, result>>
ghost == <<dtor, calls, hist>>
vars == <<head_, tail_, mem, allocated, brk, pc, first, last, next, node, site,
          result, dtor, calls, hist, nalloc, nfree, useAfterFree, doubleFree>>

\* ------------------------------------------------------------------ Node
\* Node(): next = nullptr, both counters 0, data not assigned.
NewNode ==
    [data |-> Indeterminate, next |-> NULL,
     internal_ref_count |-> 0, external_ref_count |-> 0]

\* The addresses new may return.
FreeAddrs ==
    {a \in 1..brk : ~allocated[a]} \cup (IF brk < MaxAddr THEN {brk + 1} ELSE {})

\* An access to the node at address a.
Touch(a) == useAfterFree' = (useAfterFree \/ ~allocated[a])

\* delete of the node at address a.
Delete(a) ==
    /\ allocated' = [allocated EXCEPT ![a] = FALSE]
    /\ doubleFree' = (doubleFree \/ ~allocated[a])
    /\ nfree' = nfree + 1

\* LockFreeQueue(): one sentinel with internal_ref_count 1, head_ = tail_.
Init ==
    /\ head_ = 1
    /\ tail_ = 1
    /\ mem = [a \in Addr |->
                IF a = 1 THEN [NewNode EXCEPT !.internal_ref_count = 1]
                ELSE NewNode]
    /\ allocated = [a \in Addr |-> a = 1]
    /\ brk = 1
    /\ pc = [t \in Threads |-> "idle"]
    /\ first = [t \in Threads |-> NULL]
    /\ last = [t \in Threads |-> NULL]
    /\ next = [t \in Threads |-> NULL]
    /\ node = [t \in Threads |-> NULL]
    /\ site = [t \in Threads |-> "none"]
    /\ result = [t \in Threads |-> 0]
    /\ dtor = 0
    /\ calls = 0
    /\ hist = <<>>
    /\ nalloc = 1
    /\ nfree = 0
    /\ useAfterFree = FALSE
    /\ doubleFree = FALSE

\* A thread leaves push or pop: its locals die.
Forget(t) ==
    /\ first' = [first EXCEPT ![t] = NULL]
    /\ last' = [last EXCEPT ![t] = NULL]
    /\ next' = [next EXCEPT ![t] = NULL]
    /\ node' = [node EXCEPT ![t] = NULL]
    /\ site' = [site EXCEPT ![t] = "none"]

\* Threads are interchangeable: thread t makes its first call after the
\* threads before it have made theirs.
Started(u) == \E i \in 1..Len(hist) : hist[i][2] = u
MayCall(t, limit) ==
    /\ pc[t] = "idle"
    /\ dtor = 0
    /\ calls < limit
    /\ \A u \in 1..(t - 1) : Started(u)

\* ------------------------------------------------------------------ push
\* push(value) is called; line 138 allocates the node with Node(), which
\* does not take value.
PushCall(t, limit) ==
    /\ MayCall(t, limit)
    /\ \E v \in Values, a \in FreeAddrs :
        /\ mem' = [mem EXCEPT ![a] = NewNode]
        /\ allocated' = [allocated EXCEPT ![a] = TRUE]
        /\ brk' = IF a > brk THEN a ELSE brk
        /\ node' = [node EXCEPT ![t] = a]
        /\ hist' = Append(hist, <<"inv", t, "push", v>>)
    /\ nalloc' = nalloc + 1
    /\ calls' = calls + 1
    /\ pc' = [pc EXCEPT ![t] = "p_load_tail"]
    /\ UNCHANGED <<queue, first, last, next, site, result, dtor, nfree,
                   useAfterFree, doubleFree>>

push(t) == PushCall(t, MaxCalls)

\* line 140: last = tail_.load()
p_load_tail(t) ==
    /\ pc[t] = "p_load_tail"
    /\ last' = [last EXCEPT ![t] = tail_]
    /\ pc' = [pc EXCEPT ![t] = "p_load_next"]
    /\ UNCHANGED <<queue, heap, first, next, node, site, result, ghost>>

\* line 141: next = last->next.load()
p_load_next(t) ==
    /\ pc[t] = "p_load_next"
    /\ next' = [next EXCEPT ![t] = mem[last[t]].next]
    /\ Touch(last[t])
    /\ pc' = [pc EXCEPT ![t] = "p_recheck"]
    /\ UNCHANGED <<queue, mem, allocated, brk, nalloc, nfree, doubleFree,
                   first, last, node, site, result, ghost>>

\* lines 143-144: if (last == tail_.load()), then if (next == nullptr)
p_recheck(t) ==
    /\ pc[t] = "p_recheck"
    /\ pc' = [pc EXCEPT ![t] =
                IF last[t] # tail_ THEN "p_load_tail"
                ELSE IF next[t] = NULL THEN "p_cas_next" ELSE "p_help"]
    /\ UNCHANGED <<queue, heap, locals, ghost>>

\* line 151: last->next.compare_exchange_strong(next, node)
p_cas_next(t) ==
    /\ pc[t] = "p_cas_next"
    /\ Touch(last[t])
    /\ IF mem[last[t]].next = next[t]
       THEN /\ mem' = [mem EXCEPT ![last[t]].next = node[t]]
            /\ pc' = [pc EXCEPT ![t] = "p_add_internal"]
            /\ UNCHANGED next
       ELSE /\ next' = [next EXCEPT ![t] = mem[last[t]].next]
            /\ pc' = [pc EXCEPT ![t] = "p_load_tail"]
            /\ UNCHANGED mem
    /\ UNCHANGED <<queue, allocated, brk, nalloc, nfree, doubleFree,
                   first, last, node, site, result, ghost>>

\* line 157: node->internal_ref_count.fetch_add(1)
p_add_internal(t) ==
    /\ pc[t] = "p_add_internal"
    /\ Touch(node[t])
    /\ mem' = [mem EXCEPT ![node[t]].internal_ref_count = @ + 1]
    /\ pc' = [pc EXCEPT ![t] = "p_cas_tail"]
    /\ UNCHANGED <<queue, allocated, brk, nalloc, nfree, doubleFree,
                   locals, ghost>>

\* line 158: tail_.compare_exchange_strong(last, node), result ignored
p_cas_tail(t) ==
    /\ pc[t] = "p_cas_tail"
    /\ IF tail_ = last[t]
       THEN tail_' = node[t] /\ UNCHANGED last
       ELSE last' = [last EXCEPT ![t] = tail_] /\ UNCHANGED tail_
    /\ pc' = [pc EXCEPT ![t] = "r_sub_int"]
    /\ UNCHANGED <<head_, heap, first, next, node, site, result, ghost>>

\* line 170: tail_.compare_exchange_strong(last, next), then the next pass
p_help(t) ==
    /\ pc[t] = "p_help"
    /\ IF tail_ = last[t]
       THEN tail_' = next[t] /\ UNCHANGED last
       ELSE last' = [last EXCEPT ![t] = tail_] /\ UNCHANGED tail_
    /\ pc' = [pc EXCEPT ![t] = "p_load_tail"]
    /\ UNCHANGED <<head_, heap, first, next, node, site, result, ghost>>

\* The value the call thread t is in was given.
Arg(t) ==
    LET inv == {i \in 1..Len(hist) : hist[i][1] = "inv" /\ hist[i][2] = t}
    IN  hist[CHOOSE i \in inv : \A j \in inv : j <= i][4]

\* push returns (line 160).
PushReturn(t) ==
    /\ pc' = [pc EXCEPT ![t] = "idle"]
    /\ hist' = Append(hist, <<"ret", t, "push", Arg(t)>>)
    /\ Forget(t)
    /\ UNCHANGED <<result, dtor, calls>>

\* release_internal_counter(node), line 105: internal_ref_count.fetch_sub(1) == 1
r_sub_int(t) ==
    /\ pc[t] = "r_sub_int"
    /\ Touch(node[t])
    /\ mem' = [mem EXCEPT ![node[t]].internal_ref_count = @ - 1]
    /\ IF mem[node[t]].internal_ref_count = 1
       THEN /\ pc' = [pc EXCEPT ![t] = "r_load_ext"]
            /\ UNCHANGED <<locals, ghost>>
       ELSE PushReturn(t)
    /\ UNCHANGED <<queue, allocated, brk, nalloc, nfree, doubleFree>>

\* line 107: external_ref_count.load() == 0
r_load_ext(t) ==
    /\ pc[t] = "r_load_ext"
    /\ Touch(node[t])
    /\ IF mem[node[t]].external_ref_count = 0
       THEN /\ pc' = [pc EXCEPT ![t] = "r_delete"]
            /\ UNCHANGED <<locals, ghost>>
       ELSE PushReturn(t)
    /\ UNCHANGED <<queue, mem, allocated, brk, nalloc, nfree, doubleFree>>

\* line 108: delete node
r_delete(t) ==
    /\ pc[t] = "r_delete"
    /\ Delete(node[t])
    /\ PushReturn(t)
    /\ UNCHANGED <<queue, mem, brk, nalloc, useAfterFree>>


\* ------------------------------------------------------------------- pop
\* pop(value) is called.
PopCall(t, limit) ==
    /\ MayCall(t, limit)
    /\ calls' = calls + 1
    /\ hist' = Append(hist, <<"inv", t, "pop", 0>>)
    /\ pc' = [pc EXCEPT ![t] = "q_load_head"]
    /\ UNCHANGED <<queue, heap, locals, dtor>>

pop(t) == PopCall(t, MaxCalls)

\* line 180, claim_node(head_), line 129: node = p_node.load()
q_load_head(t) ==
    /\ pc[t] = "q_load_head"
    /\ first' = [first EXCEPT ![t] = head_]
    /\ pc' = [pc EXCEPT ![t] = "q_claim_head"]
    /\ UNCHANGED <<queue, heap, last, next, node, site, result, ghost>>

\* claim_node, line 131: node->external_ref_count.fetch_add(1)
q_claim_head(t) ==
    /\ pc[t] = "q_claim_head"
    /\ mem[first[t]].external_ref_count < MaxRef
    /\ Touch(first[t])
    /\ mem' = [mem EXCEPT ![first[t]].external_ref_count = @ + 1]
    /\ pc' = [pc EXCEPT ![t] = "q_add_ext"]
    /\ UNCHANGED <<queue, allocated, brk, nalloc, nfree, doubleFree,
                   locals, ghost>>

\* line 181: first->external_ref_count.fetch_add(1)
q_add_ext(t) ==
    /\ pc[t] = "q_add_ext"
    /\ mem[first[t]].external_ref_count < MaxRef
    /\ Touch(first[t])
    /\ mem' = [mem EXCEPT ![first[t]].external_ref_count = @ + 1]
    /\ pc' = [pc EXCEPT ![t] = "q_load_next"]
    /\ UNCHANGED <<queue, allocated, brk, nalloc, nfree, doubleFree,
                   locals, ghost>>

\* line 182: next = first->next.load()
q_load_next(t) ==
    /\ pc[t] = "q_load_next"
    /\ Touch(first[t])
    /\ next' = [next EXCEPT ![t] = mem[first[t]].next]
    /\ pc' = [pc EXCEPT ![t] = "q_load_tail"]
    /\ UNCHANGED <<queue, mem, allocated, brk, nalloc, nfree, doubleFree,
                   first, last, node, site, result, ghost>>

\* line 183, claim_node(tail_), line 129: node = p_node.load()
q_load_tail(t) ==
    /\ pc[t] = "q_load_tail"
    /\ last' = [last EXCEPT ![t] = tail_]
    /\ pc' = [pc EXCEPT ![t] = "q_claim_tail"]
    /\ UNCHANGED <<queue, heap, first, next, node, site, result, ghost>>

\* The tests of lines 184 and 198: the call of free_external_counter (named
\* by its line) or the CAS on head_ that pop goes to with its three locals.
PopBranchWithoutEmptyTest(t) ==
    IF next[t] # NULL THEN "q_cas_head" ELSE "c207"

PopBranch(t) ==
    IF first[t] = last[t] THEN "c185"
    ELSE IF next[t] # NULL THEN "q_cas_head" ELSE "c207"

\* claim_node, line 131, then the tests of lines 184 and 198.
q_claim_tail(t) ==
    /\ pc[t] = "q_claim_tail"
    /\ mem[last[t]].external_ref_count < MaxRef
    /\ Touch(last[t])
    /\ mem' = [mem EXCEPT ![last[t]].external_ref_count = @ + 1]
    /\ pc' = [pc EXCEPT ![t] = PopBranch(t)]
    /\ UNCHANGED <<queue, allocated, brk, nalloc, nfree, doubleFree,
                   locals, ghost>>

\* The calls of free_external_counter in pop, and the argument of each.
Sites == {"c185", "c187", "c194", "c202", "c203", "c207", "c208"}
SiteNode(t, s) == IF s \in {"c185", "c202", "c207"} THEN last[t] ELSE first[t]

\* pop returns found (lines 204, and 81 in the destructor's loop) or
\* not found (line 188, then line 83 in the destructor).
PopReturn(t, found) ==
    /\ IF dtor = t
       THEN /\ pc' = [pc EXCEPT ![t] = IF found THEN "q_load_head" ELSE "d_load_head"]
            /\ UNCHANGED hist
       ELSE /\ pc' = [pc EXCEPT ![t] = "idle"]
            /\ hist' = Append(hist, <<"ret", t, "pop",
                                      IF found THEN result[t] ELSE NotFound>>)
    /\ Forget(t)
    /\ UNCHANGED <<result, dtor, calls>>

\* What follows the return of the call of free_external_counter at site s.
AfterFree(t, s) ==
    CASE s = "c185" ->
            /\ pc' = [pc EXCEPT ![t] = IF next[t] = NULL THEN "c187" ELSE "q_help_tail"]
            /\ site' = [site EXCEPT ![t] = "none"]
            /\ UNCHANGED <<first, last, next, node, result, ghost>>
      [] s = "c187" -> PopReturn(t, FALSE)
      [] s = "c202" ->
            /\ pc' = [pc EXCEPT ![t] = "c203"]
            /\ site' = [site EXCEPT ![t] = "none"]
            /\ UNCHANGED <<first, last, next, node, result, ghost>>
      [] s = "c203" -> PopReturn(t, TRUE)
      [] s = "c207" ->
            /\ pc' = [pc EXCEPT ![t] = "c208"]
            /\ site' = [site EXCEPT ![t] = "none"]
            /\ UNCHANGED <<first, last, next, node, result, ghost>>
      [] s \in {"c194", "c208"} ->
            /\ pc' = [pc EXCEPT ![t] = "q_load_head"]
            /\ Forget(t)
            /\ UNCHANGED <<result, ghost>>

\* free_external_counter(node), line 118: external_ref_count.fetch_sub(1),
\* and line 119: if (prev_count == 1)
f_sub_ext(t) ==
    /\ pc[t] \in Sites
    /\ LET n == SiteNode(t, pc[t]) IN
        /\ Touch(n)
        /\ mem' = [mem EXCEPT ![n].external_ref_count = @ - 1]
        /\ IF mem[n].external_ref_count = 1
           THEN /\ pc' = [pc EXCEPT ![t] = "f_sub_int"]
                /\ site' = [site EXCEPT ![t] = pc[t]]
                /\ UNCHANGED <<first, last, next, node, result, ghost>>
           ELSE AfterFree(t, pc[t])
    /\ UNCHANGED <<queue, allocated, brk, nalloc, nfree, doubleFree>>

\* free_external_counter once external_ref_count was 1, one step each:
\* line 120, internal_ref_count.fetch_sub(1) == 1, and line 121, delete node.
f_internal(t) ==
    /\ pc[t] \in {"f_sub_int", "f_delete"}
    /\ LET n == SiteNode(t, site[t]) IN
        IF pc[t] = "f_sub_int"
        THEN /\ Touch(n)
             /\ mem' = [mem EXCEPT ![n].internal_ref_count = @ - 1]
             /\ IF mem[n].internal_ref_count = 1
                THEN /\ pc' = [pc EXCEPT ![t] = "f_delete"]
                     /\ UNCHANGED <<locals, ghost>>
                ELSE AfterFree(t, site[t])
             /\ UNCHANGED <<allocated, nfree, doubleFree>>
        ELSE /\ Delete(n)
             /\ AfterFree(t, site[t])
             /\ UNCHANGED <<mem, useAfterFree>>
    /\ UNCHANGED <<queue, brk, nalloc>>

\* line 193: tail_.compare_exchange_strong(last, next)
q_help_tail(t) ==
    /\ pc[t] = "q_help_tail"
    /\ IF tail_ = last[t]
       THEN tail_' = next[t] /\ UNCHANGED last
       ELSE last' = [last EXCEPT ![t] = tail_] /\ UNCHANGED tail_
    /\ pc' = [pc EXCEPT ![t] = "c194"]
    /\ UNCHANGED <<head_, heap, first, next, node, site, result, ghost>>

\* line 200: head_.compare_exchange_strong(first, next); a failed CAS stores
\* the current head_ in first.
q_cas_head(t) ==
    /\ pc[t] = "q_cas_head"
    /\ IF head_ = first[t]
       THEN /\ head_' = next[t]
            /\ pc' = [pc EXCEPT ![t] = "q_read_data"]
            /\ UNCHANGED first
       ELSE /\ first' = [first EXCEPT ![t] = head_]
            /\ pc' = [pc EXCEPT ![t] = "c207"]
            /\ UNCHANGED head_
    /\ UNCHANGED <<tail_, heap, last, next, node, site, result, ghost>>

\* line 201: result = next->data; the data of a node is never assigned, so
\* the read yields any T.
q_read_data(t) ==
    /\ pc[t] = "q_read_data"
    /\ Touch(next[t])
    /\ \E d \in Data :
        /\ mem[next[t]].data \in {d, Indeterminate}
        /\ result' = [result EXCEPT ![t] = d]
    /\ pc' = [pc EXCEPT ![t] = "c202"]
    /\ UNCHANGED <<queue, mem, allocated, brk, nalloc, nfree, doubleFree,
                   first, last, next, node, site, ghost>>

\* ----------------------------------------------------------- ~LockFreeQueue
\* Lines 80-81: the destructor starts its loop of pops; no call is in flight.
destroy(t) ==
    /\ dtor = 0
    /\ \A u \in Threads : pc[u] = "idle"
    /\ \A u \in 1..(t - 1) : Started(u)
    /\ dtor' = t
    /\ pc' = [pc EXCEPT ![t] = "q_load_head"]
    /\ UNCHANGED <<queue, heap, locals, calls, hist>>

\* line 83: last_node = head_.load()
d_load_head(t) ==
    /\ pc[t] = "d_load_head"
    /\ node' = [node EXCEPT ![t] = head_]
    /\ pc' = [pc EXCEPT ![t] = "d_delete"]
    /\ UNCHANGED <<queue, heap, first, last, next, site, result, ghost>>

\* line 84: delete last_node
d_delete(t) ==
    /\ pc[t] = "d_delete"
    /\ Delete(node[t])
    /\ pc' = [pc EXCEPT ![t] = "destroyed"]
    /\ UNCHANGED <<queue, mem, brk, nalloc, useAfterFree, locals, ghost>>

\* ------------------------------------------------------------------ Next
AllIdle == \A t \in Threads : pc[t] = "idle"

\* The steps of push after the call.
PushStep(t) ==
    \/ p_load_tail(t)
    \/ p_load_next(t)
    \/ p_recheck(t)
    \/ p_cas_next(t)
    \/ p_add_internal(t)
    \/ p_cas_tail(t)
    \/ p_help(t)
    \/ r_sub_int(t)
    \/ r_load_ext(t)
    \/ r_delete(t)

\* The steps of pop after the call, and of the destructor after its start.
PopStep(t) ==
    \/ q_load_head(t)
    \/ q_claim_head(t)
    \/ q_add_ext(t)
    \/ q_load_next(t)
    \/ q_load_tail(t)
    \/ q_claim_tail(t)
    \/ f_sub_ext(t)
    \/ f_internal(t)
    \/ q_help_tail(t)
    \/ q_cas_head(t)
    \/ q_read_data(t)
    \/ d_load_head(t)
    \/ d_delete(t)

\* Any number of threads call push and pop at any time.
Next ==
    \E t \in Threads :
        \/ push(t)
        \/ pop(t)
        \/ destroy(t)
        \/ PushStep(t)
        \/ PopStep(t)

Spec == Init /\ [][Next]_vars

\* A call is made only when no call is in flight.
serial_push(t) == AllIdle /\ PushCall(t, MaxSerialCalls)
serial_pop(t) == AllIdle /\ PopCall(t, MaxSerialCalls)

SerialNext ==
    \E t \in Threads :
        \/ serial_push(t)
        \/ serial_pop(t)
        \/ destroy(t)
        \/ PushStep(t)
        \/ PopStep(t)

SerialSpec == Init /\ [][SerialNext]_vars

\* Pushes only; a thread that is in a call keeps taking steps.
fair_push(t) == PushCall(t, MaxPushCalls)

PushNext == \E t \in Threads : fair_push(t) \/ PushStep(t)

FairPushSpec ==
    Init /\ [][PushNext]_vars /\ \A t \in Threads : WF_vars(PushStep(t))

\* The first calls are made one after the other; the last MaxCalls calls of a
\* behaviour are made at any time, so that they overlap.
MayOverlap == AllIdle \/ calls >= MaxSerialCalls - MaxCalls
late_push(t) == MayOverlap /\ PushCall(t, MaxSerialCalls)
late_pop(t) == MayOverlap /\ PopCall(t, MaxSerialCalls)

LateNext ==
    \E t \in Threads :
        \/ late_push(t)
        \/ late_pop(t)
        \/ destroy(t)
        \/ PushStep(t)
        \/ PopStep(t)

LateOverlapSpec == Init /\ [][LateNext]_vars

\* ------------------------------------------------------- reading the state
Destroyed == \E t \in Threads : pc[t] = "destroyed"

\* The nodes reached from head_ by next links.
RECURSIVE ChainFrom(_, _)
ChainFrom(a, seen) ==
    IF a = NULL \/ a \in seen THEN seen
    ELSE ChainFrom(mem[a].next, seen \cup {a})
Chain == ChainFrom(head_, {})

\* The values of the pushes that have returned, and what the pops that have
\* returned gave (NotFound or the value), each in the order of the returns.
IsPushRet(e) == e[1] = "ret" /\ e[3] = "push"
IsPopRet(e) == e[1] = "ret" /\ e[3] = "pop"
ValueOf(e) == e[4]
RECURSIVE Map4(_)
Map4(es) == IF es = <<>> THEN <<>> ELSE <<ValueOf(Head(es))>> \o Map4(Tail(es))
Pushed == Map4(SelectSeq(hist, IsPushRet))
PopResults == Map4(SelectSeq(hist, IsPopRet))
IsFound(v) == v # NotFound
Popped == SelectSeq(PopResults, IsFound)
Count(v, seq) == Cardinality({i \in 1..Len(seq) : seq[i] = v})

\* Every call returned before the next was made, and no push was called
\* after a pop.
Serial ==
    /\ \A i \in 1..Len(hist) :
        hist[i][1] = "inv" /\ i < Len(hist) =>
            hist[i + 1][1] = "ret" /\ hist[i + 1][2] = hist[i][2]
    /\ \A i, j \in 1..Len(hist) :
        i < j /\ hist[i][3] = "pop" => hist[j][3] = "pop"

\* ---------------------------------------------------------------- claims
\* C1: FIFO under serialization.  When every push has returned before the
\* first pop is called and the calls do not overlap, the k-th pop returns the
\* value of the k-th push, and a pop beyond the last push returns not found.
C1_FifoUnderSerialization ==
    Serial =>
        \A k \in 1..Len(PopResults) :
            PopResults[k] = IF k <= Len(Pushed) THEN Pushed[k] ELSE NotFound

\* C2: no loss, no duplication.  When pushes of distinct values and pops have
\* all returned and the last of them is a pop that found the queue empty,
\* the values the pops returned are the values pushed, each exactly once.
C2_NoLossNoDuplication ==
    (/\ AllIdle
     /\ hist # <<>>
     /\ hist[Len(hist)] = <<"ret", hist[Len(hist)][2], "pop", NotFound>>
     /\ \A v \in Values : Count(v, Pushed) <= 1)
    => \A v \in Data : Count(v, Popped) = Count(v, Pushed)

\* C3: no node is freed twice: no delete, in the reclamation operations or in
\* the destructor, goes to a node that was already deleted.
C3_NoDoubleFree == ~doubleFree

\* C4: no use after free: no thread accesses a field of a node that has been
\* deleted, and head_, tail_ and the next links of the chain from head_ refer
\* to live nodes only.
C4_NoUseAfterFree ==
    /\ ~useAfterFree
    /\ allocated[head_]
    /\ allocated[tail_]
    /\ \A a \in Chain : allocated[a]

\* C6: no leak at teardown: once the destructor has finished, every node
\* that was allocated has been deleted, and there were as many deletes as
\* allocations.
C6_NoLeakAtTeardown ==
    Destroyed => (\A a \in Addr : ~allocated[a]) /\ nfree = nalloc

\* C7: claim/release balance: when no push or pop is in flight, the external
\* count of every node is zero.
C7_ClaimReleaseBalance ==
    AllIdle => \A a \in 1..brk : mem[a].external_ref_count = 0

\* The invocation of the call that returns at position j of hist.
InvOf(j) ==
    CHOOSE i \in 1..(j - 1) :
        /\ hist[i][1] = "inv" /\ hist[i][2] = hist[j][2]
        /\ \A k \in (i + 1)..(j - 1) : hist[k][2] # hist[j][2]
\* The events before position j that satisfy Test.
Before(j, Test(_)) == Cardinality({k \in 1..(j - 1) : Test(hist[k])})
IsPopInv(e) == e[1] = "inv" /\ e[3] = "pop"
IsPopRetEmpty(e) == IsPopRet(e) /\ e[4] = NotFound

\* C10: visibility of completed pushes.  A pop does not report not found
\* when more pushes had returned before it was called than there are other
\* pops that can have removed a value (those that returned a value before it
\* returned and those still in flight when it returned).
C10_CompletedPushVisible ==
    \A j \in 1..Len(hist) :
        IsPopRetEmpty(hist[j]) =>
            Before(InvOf(j), IsPushRet)
                <= Before(j, IsPopInv) - 1 - Before(j, IsPopRetEmpty)

\* The calls of hist, each named by the position of its invocation; the
\* position of a call's return, 0 while it is in flight.
Calls == {i \in 1..Len(hist) : hist[i][1] = "inv"}
RetOf(i) ==
    LET later == {j \in (i + 1)..Len(hist) : hist[j][2] = hist[i][2]}
    IN  IF later = {} THEN 0 ELSE CHOOSE j \in later : \A k \in later : j <= k

\* Whether the calls not in done can take effect one at a time, each between
\* its invocation and its return, on a FIFO queue holding q, with the results
\* hist records.  A call in flight may have taken effect or not.
RECURSIVE Lin(_, _)
Lin(done, q) ==
    \/ \A i \in Calls \ done : RetOf(i) = 0
    \/ \E i \in Calls \ done :
        /\ \A k \in Calls \ done : RetOf(k) = 0 \/ RetOf(k) > i
        /\ IF hist[i][3] = "push"
           THEN Lin(done \cup {i}, Append(q, hist[i][4]))
           ELSE /\ \/ RetOf(i) = 0
                   \/ hist[RetOf(i)][4] = IF q = <<>> THEN NotFound ELSE Head(q)
                /\ Lin(done \cup {i}, IF q = <<>> THEN q ELSE Tail(q))

\* C5: linearizability.  The history of push and pop calls is that of a
\* sequential FIFO queue on which each call takes effect at one point between
\* its invocation and its return.
C5_Linearizable == Lin({}, <<>>)

\* The queue is empty, thread t is the only one in a call, and t is in a pass
\* of pop's loop whose locals were read from this queue.
EmptyQueue == head_ = tail_ /\ mem[head_].next = NULL
InEmptyPass(t) ==
    /\ \A u \in Threads \ {t} : pc[u] = "idle"
    /\ EmptyQueue
    /\ \/ pc[t] = "q_load_head"
       \/ /\ pc[t] \in {"q_claim_head", "q_add_ext", "q_load_next"}
          /\ first[t] = head_
       \/ /\ pc[t] = "q_load_tail"
          /\ first[t] = head_ /\ next[t] = NULL
       \/ /\ \/ pc[t] \in {"q_claim_tail", "c185", "c187"}
             \/ pc[t] \in {"f_sub_int", "f_delete"} /\ site[t] \in {"c185", "c187"}
          /\ first[t] = head_ /\ next[t] = NULL /\ last[t] = tail_
ReturnsNotFound(t) ==
    IF dtor = t THEN pc'[t] = "d_load_head"
    ELSE pc'[t] = "idle" /\ hist' = Append(hist, <<"ret", t, "pop", NotFound>>)

\* C8: non-blocking empty check.  A pass of pop on an empty queue with no
\* other call in flight leaves head_, tail_, every next link and the caller's
\* output as they are at each of its steps, starts no other pass, and ends
\* with pop returning not found.
C8_NonBlockingEmptyCheck ==
    [][\A t \in Threads :
        InEmptyPass(t) /\ pc'[t] # pc[t] =>
            /\ head_' = head_
            /\ tail_' = tail_
            /\ \A a \in Addr : mem'[a].next = mem[a].next
            /\ result' = result
            /\ \/ ReturnsNotFound(t)
               \/ InEmptyPass(t)' /\ pc'[t] # "q_load_head"]_vars

\* A pop that ran alone on an empty queue, after an earlier call, has
\* returned not found.
C8_Witness ==
    /\ AllIdle
    /\ EmptyQueue
    /\ Len(hist) >= 4
    /\ hist[Len(hist)][1] = "ret" /\ hist[Len(hist)][3] = "pop"
    /\ hist[Len(hist)][4] = NotFound
    /\ hist[Len(hist) - 1] = <<"inv", hist[Len(hist)][2], "pop", 0>>

\* C9: push always eventually returns.  With every thread scheduled fairly,
\* a thread that is in push leaves it.
C9_PushReturns ==
    \A t \in Threads : (pc[t] # "idle") ~> (pc[t] = "idle")

\* C11: every node reached from head_ by next links has internal count >= 1
\* while it is linked, the node a push has linked included once that push
\* has made its fetch_add of line 157 (and so after the push has returned).
C11_LinkedNodesOwned ==
    \A a \in Chain :
        (\A t \in Threads : ~(pc[t] = "p_add_internal" /\ node[t] = a))
            => mem[a].internal_ref_count >= 1

\* The node that thread t deletes with its next step, in
\* release_internal_counter (line 108) or free_external_counter (line 121).
InDelete(t) == pc[t] \in {"r_delete", "f_delete"}
DeleteTarget(t) == IF pc[t] = "r_delete" THEN node[t] ELSE SiteNode(t, site[t])

\* C12: a node is freed by the reclamation operations only when both its
\* counts are zero: at the step that executes delete node, the node's
\* internal and external counts are both 0, a claim taken by another thread
\* after the zero check included.
C12_DeleteOnlyAtZero ==
    [][\A t \in Threads :
        InDelete(t) /\ pc'[t] # pc[t] =>
            /\ mem[DeleteTarget(t)].internal_ref_count = 0
            /\ mem[DeleteTarget(t)].external_ref_count = 0]_vars

\* Thread t's next step is the last of free_external_counter called at site s.
LeavesSite(t, s) ==
    \/ pc[t] = s
    \/ pc[t] \in {"f_sub_int", "f_delete"} /\ site[t] = s

\* Thread t's step returns from pop with found (line 204): to the caller, or
\* to the destructor's loop.
ReturnsFound(t) ==
    /\ LeavesSite(t, "c203")
    /\ pc'[t] = IF dtor = t THEN "q_load_head" ELSE "idle"

\* C13: when a pop whose CAS on head_ succeeded returns and no other thread
\* is in a call, the old head node (first) has external and internal count 0
\* and has been deleted.
C13_RetiredSentinelFreed ==
    [][\A t \in Threads :
        ReturnsFound(t) /\ (\A u \in Threads \ {t} : pc[u] = "idle") =>
            /\ mem'[first[t]].external_ref_count = 0
            /\ mem'[first[t]].internal_ref_count = 0
            /\ ~allocated'[first[t]]]_vars

\* Thread t's next step is in a call of free_external_counter(last).
InReleaseLast(t) ==
    \E s \in {"c185", "c202", "c207"} : LeavesSite(t, s)

\* C14: in pop, the release of the external hold on last leaves the internal
\* count of that node unchanged: no step that thread t takes in
\* free_external_counter(last) changes last's internal_ref_count.
C14_ReleaseLastKeepsInternal ==
    [][\A t \in Threads :
        InReleaseLast(t) /\ pc'[t] # pc[t] =>
            mem'[last[t]].internal_ref_count = mem[last[t]].internal_ref_count]_vars

\* C15: tail_ refers to a node of the chain from head_, and that node is the
\* last node (its next is absent) or has another node of the chain linked
\* after it.
C15_TailInChain ==
    /\ tail_ \in Chain
    /\ \/ mem[tail_].next = NULL
       \/ mem[tail_].next \in Chain \ {tail_}

\* C19: head never overtakes tail.  At every step tail_ is reached from head_
\* by next links, and head_ and tail_ change only to the successor of the
\* node they referred to.
C19_HeadNeverOvertakesTail ==
    [][/\ tail_' \in Chain'
       /\ head_' # head_ => head_' = mem[head_].next
       /\ tail_' # tail_ => tail_' = mem[tail_].next]_vars

\* Thread t's step is the successful CAS of line 151, which makes its node
\* reachable through next.
Links(t) == pc[t] = "p_cas_next" /\ pc'[t] = "p_add_internal"

\* C17: the node that push(v) links holds v when it becomes reachable
\* through next, and both its counts are zero before it is linked.
C17_LinkedNodeHoldsValue ==
    [][\A t \in Threads :
        Links(t) =>
            /\ mem'[node[t]].data = Arg(t)
            /\ mem[node[t]].internal_ref_count = 0
            /\ mem[node[t]].external_ref_count = 0]_vars

\* The calls that have returned, and whether a call is in flight.
Returned == Cardinality({i \in 1..Len(hist) : hist[i][1] = "ret"})
InFlight == \E t \in Threads : pc[t] # "idle"

\* C18: lock-free progress.  While a call is in flight and every thread in a
\* call keeps taking steps, some call returns: the number of calls that have
\* returned does not stay what it is.
C18_SomeCallCompletes ==
    \A n \in 0..MaxPushCalls :
        (InFlight /\ Returned = n) ~> (Returned > n)

\* C20: reference counts never underflow: no counter of a node goes below
\* zero (a negative value stands for the unsigned value wrapped below 0).
C20_NoUnderflow ==
    \A a \in Addr :
        /\ mem[a].internal_ref_count >= 0
        /\ mem[a].external_ref_count >= 0

\* Thread t's step is the successful CAS on head_ of line 200; thread t's
\* step is the read of line 201.
SwingsHead(t) == pc[t] = "q_cas_head" /\ pc'[t] = "q_read_data"
ReadsData(t) == pc[t] = "q_read_data" /\ pc'[t] = "c202"

\* C16: sentinel convention.  The node a successful head CAS makes head_ is
\* the successor the old head has at that moment; the payload pop goes on
\* to read is that node's and not the old head's; and there is a head node
\* at all times.
C16_SentinelConvention ==
    [][/\ head_' # NULL
       /\ \A t \in Threads :
            /\ SwingsHead(t) =>
                /\ head_' = mem[head_].next
                /\ head_' # head_
            /\ ReadsData(t) => next[t] # first[t]]_vars

=============================================================================
